---- MODULE Spec2Model ----
(***************************************************************************)
(* A model of the AFD interpreter (src/src/processor.py) and of the        *)
(* journey summarizer (src/src/summarizer.py).                             *)
(*                                                                         *)
(* A line of text is a sequence of code points 0..255: the file is decoded *)
(* as latin-1, so every byte is one character with the same number.        *)
(* Python's None is <<>> and a present optional value x is <<x>>.          *)
(***************************************************************************)
EXTENDS Integers, Sequences, FiniteSets, TLC

None == <<>>
Some(x) == <<x>>

Min(a, b) == IF a < b THEN a ELSE b

\* ------------------------------------------------------------------
\* Characters (str methods of Python on latin-1 text)
\* ------------------------------------------------------------------

\* str.isdigit() is true of 0-9 and of the superscripts 2, 3 and 1.
DigitCodes == 48..57 \cup {178, 179, 185}

\* The characters int() and the regex \d take as decimal digits.
DecimalCodes == 48..57

\* The characters str.strip() removes.
StripCodes == {9, 10, 11, 12, 13, 28, 29, 30, 31, 32, 133, 160}

\* The characters int() skips around a number.
IntSpaceCodes == {9, 10, 11, 12, 13, 32, 133, 160}

_is_digits(s) == Len(s) > 0 /\ \A i \in 1..Len(s) : s[i] \in DigitCodes

_slice(line, a, b) == SubSeq(line, a, Min(b, Len(line)))

\* The positions of s holding a character strip() keeps.
Kept(s) == { k \in 1..Len(s) : s[k] \notin StripCodes }

LeastOf(S) == CHOOSE x \in S : \A y \in S : x <= y
GreatestOf(S) == CHOOSE x \in S : \A y \in S : y <= x

LStrip(s) == IF Kept(s) = {} THEN <<>> ELSE SubSeq(s, LeastOf(Kept(s)), Len(s))

RStrip(s) == IF Kept(s) = {} THEN <<>> ELSE SubSeq(s, 1, GreatestOf(Kept(s)))

Strip(s) == RStrip(LStrip(s))

\* str.upper() on the characters a checksum field is compared through: a-z
\* become A-Z; no other latin-1 character becomes a hexadecimal digit.
UpperCode(c) == IF c \in 97..122 THEN c - 32 ELSE c

Upper(s) == [i \in 1..Len(s) |-> UpperCode(s[i])]

\* ------------------------------------------------------------------
\* int(text)
\* ------------------------------------------------------------------

RECURSIVE LStripInt(_)
LStripInt(s) ==
    IF Len(s) > 0 /\ s[1] \in IntSpaceCodes THEN LStripInt(Tail(s)) ELSE s

RECURSIVE RStripInt(_)
RStripInt(s) ==
    IF Len(s) > 0 /\ s[Len(s)] \in IntSpaceCodes
    THEN RStripInt(SubSeq(s, 1, Len(s) - 1)) ELSE s

\* Digits with single underscores between them.
IntBodyOk(s) ==
    /\ Len(s) > 0
    /\ s[1] \in DecimalCodes
    /\ s[Len(s)] \in DecimalCodes
    /\ \A i \in 1..Len(s) : s[i] \in DecimalCodes \cup {95}
    /\ \A i \in 1..(Len(s) - 1) : ~(s[i] = 95 /\ s[i + 1] = 95)

RECURSIVE IntBodyValue(_, _)
IntBodyValue(s, acc) ==
    IF Len(s) = 0 THEN acc
    ELSE IF s[1] = 95 THEN IntBodyValue(Tail(s), acc)
    ELSE IntBodyValue(Tail(s), 10 * acc + (s[1] - 48))

\* [ok |-> TRUE, v |-> n], or [ok |-> FALSE] where int() raises ValueError.
PyInt(text) ==
    LET t == RStripInt(LStripInt(text))
        signed == Len(t) > 0 /\ t[1] \in {43, 45}
        body == IF signed THEN Tail(t) ELSE t
    IN  IF IntBodyOk(body)
        THEN [ok |-> TRUE,
              v |-> IF signed /\ t[1] = 45
                    THEN 0 - IntBodyValue(body, 0) ELSE IntBodyValue(body, 0)]
        ELSE [ok |-> FALSE, v |-> 0]

IntError(text) == [kind |-> "invalid literal for int()", text |-> text]

\* ------------------------------------------------------------------
\* CRC-16/IBM (ARC)
\* ------------------------------------------------------------------

RECURSIVE XorBits(_, _, _)
XorBits(a, b, n) ==
    IF n = 0 THEN 0
    ELSE (((a % 2) + (b % 2)) % 2) + 2 * XorBits(a \div 2, b \div 2, n - 1)

\* a ^ b for every pair of 4-bit values, computed once.
XorNibble == [a \in 0..15 |-> [b \in 0..15 |-> XorBits(a, b, 4)]]

\* a ^ b on 16 bits, four bits at a time.
Xor16(a, b) ==
    XorNibble[a % 16][b % 16]
    + 16 * XorNibble[(a \div 16) % 16][(b \div 16) % 16]
    + 256 * XorNibble[(a \div 256) % 16][(b \div 256) % 16]
    + 4096 * XorNibble[(a \div 4096) % 16][(b \div 4096) % 16]

\* A shift that leaves the polynomial out.
CrcBitSemPolinomio(crc) == crc \div 2

CrcBit(crc) ==
    IF crc % 2 = 1 THEN Xor16(crc \div 2, 40961) ELSE crc \div 2

RECURSIVE CrcBits(_, _)
CrcBits(crc, n) == IF n = 0 THEN crc ELSE CrcBits(CrcBit(crc), n - 1)

RECURSIVE CrcRange(_, _, _, _)
\* The register after bytes lo..hi of data, from register crc: the loop over
\* the bytes, split in halves to keep the evaluation shallow.
CrcRange(data, lo, hi, crc) ==
    IF lo > hi THEN crc
    ELSE IF lo = hi THEN CrcBits(Xor16(crc, data[lo]), 8)
    ELSE LET mid == (lo + hi) \div 2
             half == CrcRange(data, lo, mid, crc)
         IN  IF half >= 0 THEN CrcRange(data, mid + 1, hi, half) ELSE 0

crc16_ibm_arc(data) == CrcRange(data, 1, Len(data), 0) % 65536

HexDigit(n) == IF n < 10 THEN 48 + n ELSE 55 + n

\* f"{n:04X}"
Hex4(n) ==
    << HexDigit((n \div 4096) % 16), HexDigit((n \div 256) % 16),
       HexDigit((n \div 16) % 16), HexDigit(n % 16) >>

_crc16_hex4_for_line(line, a, b) ==
    LET left == _slice(line, 1, a - 1)
        right == _slice(line, b + 1, Len(line))
    IN  Hex4(crc16_ibm_arc(left \o right))

\* The checksum verification of a record: the field, uppercased, against the
\* checksum of the line without the field.
CrcOk(line, a, b) == Upper(_slice(line, a, b)) = _crc16_hex4_for_line(line, a, b)

\* ------------------------------------------------------------------
\* Field conversions
\* ------------------------------------------------------------------

_ddmmaaaa_to_iso(d) ==
    IF Len(d) = 8 /\ _is_digits(d)
    THEN Some(SubSeq(d, 5, 8) \o <<45>> \o SubSeq(d, 3, 4) \o <<45>> \o SubSeq(d, 1, 2))
    ELSE None

_hhmm_to_hhmm(h) ==
    IF Len(h) = 4 /\ _is_digits(h)
    THEN Some(SubSeq(h, 1, 2) \o <<58>> \o SubSeq(h, 3, 4))
    ELSE None

\* \d{4}-\d{2}-\d{2}T\d{2}:\d{2}:00[+-]\d{4}, matched against the whole text.
_is_iso_dh(s) ==
    /\ Len(s) = 24
    /\ \A i \in {1, 2, 3, 4, 6, 7, 9, 10, 12, 13, 15, 16, 21, 22, 23, 24} :
          s[i] \in DecimalCodes
    /\ s[5] = 45 /\ s[8] = 45 /\ s[11] = 84
    /\ s[14] = 58 /\ s[17] = 58
    /\ s[18] = 48 /\ s[19] = 48
    /\ s[20] \in {43, 45}

\* ------------------------------------------------------------------
\* Parsers: [ok |-> TRUE, r |-> record] or [ok |-> FALSE, e |-> error]
\* ------------------------------------------------------------------

Ok(r) == [ok |-> TRUE, r |-> r, e |-> None]
Err(e) == [ok |-> FALSE, r |-> None, e |-> e]

LenError(what, len, min) == [kind |-> what, len |-> len, min |-> min]

\* The positions of the texts that int() refuses.
BadInts(texts) == { k \in 1..Len(texts) : ~PyInt(texts[k]).ok }

\* A parser's body once the length is right: the int() conversions in the
\* order the code makes them (the first refused one raises), then the record.
Converted(texts, r) ==
    IF BadInts(texts) # {} THEN Err(IntError(texts[LeastOf(BadInts(texts))])) ELSE Ok(r)

parse_registro1_oficial(line) ==
    IF Len(line) < 302 THEN Err(LenError("Tipo 1 (oficial) com tamanho", Len(line), 302))
    ELSE Converted(<< _slice(line, 1, 9), _slice(line, 10, 10) >>,
        [nsr |-> PyInt(_slice(line, 1, 9)).v,
         tipo |-> PyInt(_slice(line, 10, 10)).v,
         id_empregador_tipo |-> Some(_slice(line, 11, 11)),
         id_empregador |-> Some(Strip(_slice(line, 12, 25))),
         cno_caepf |-> Some(Strip(_slice(line, 26, 39))),
         razao_social |-> Some(RStrip(_slice(line, 40, 189))),
         numero_fabricacao_processo_ou_inpi |-> Some(Strip(_slice(line, 190, 206))),
         data_inicio |-> Some(_slice(line, 207, 216)),
         data_fim |-> Some(_slice(line, 217, 226)),
         data_hora_geracao |-> Some(_slice(line, 227, 250)),
         versao_layout |-> Some(_slice(line, 251, 253)),
         id_fabricante_tipo |-> Some(_slice(line, 254, 254)),
         id_fabricante |-> Some(Strip(_slice(line, 255, 268))),
         modelo_rep_c |-> Some(RStrip(_slice(line, 269, 298))),
         crc16 |-> Some(Upper(_slice(line, 299, 302))),
         crc_ok |-> Some(CrcOk(line, 299, 302))])

parse_registro2(line) ==
    IF Len(line) < 331 THEN Err(LenError("Tipo 2 tamanho", Len(line), 331))
    ELSE Converted(<< _slice(line, 1, 9), _slice(line, 10, 10) >>,
        [nsr |-> PyInt(_slice(line, 1, 9)).v,
         tipo |-> PyInt(_slice(line, 10, 10)).v,
         dh_gravacao |-> _slice(line, 11, 34),
         cpf_responsavel |-> Strip(_slice(line, 35, 48)),
         id_empregador_tipo |-> _slice(line, 49, 49),
         id_empregador |-> Strip(_slice(line, 50, 63)),
         cno_caepf |-> Strip(_slice(line, 64, 77)),
         razao_social |-> RStrip(_slice(line, 78, 227)),
         local_prestacao |-> RStrip(_slice(line, 228, 327)),
         crc16 |-> Upper(_slice(line, 328, 331)),
         crc_ok |-> Some(CrcOk(line, 328, 331))])

parse_registro3_oficial(line) ==
    IF Len(line) < 50 THEN Err(LenError("Tipo 3 (oficial) tamanho", Len(line), 50))
    ELSE IF ~PyInt(_slice(line, 1, 9)).ok THEN Err(IntError(_slice(line, 1, 9)))
    ELSE IF ~_is_iso_dh(_slice(line, 11, 34))
         THEN Err([kind |-> "Tipo 3 (oficial) DH invalido", dh |-> _slice(line, 11, 34)])
    ELSE Ok([nsr |-> PyInt(_slice(line, 1, 9)).v,
             tipo |-> _slice(line, 10, 10),
             dh_marcacao |-> _slice(line, 11, 34),
             cpf |-> Strip(_slice(line, 35, 46)),
             crc16 |-> Some(Upper(_slice(line, 47, 50))),
             crc_ok |-> Some(CrcOk(line, 47, 50)),
             formato |-> "oficial"])

parse_registro4(line) ==
    IF Len(line) < 73 THEN Err(LenError("Tipo 4 tamanho", Len(line), 73))
    ELSE Converted(<< _slice(line, 1, 9), _slice(line, 10, 10) >>,
        [nsr |-> PyInt(_slice(line, 1, 9)).v,
         tipo |-> PyInt(_slice(line, 10, 10)).v,
         dh_antes |-> _slice(line, 11, 34),
         dh_ajustada |-> _slice(line, 35, 58),
         cpf_responsavel |-> Strip(_slice(line, 59, 69)),
         crc16 |-> Upper(_slice(line, 70, 73)),
         crc_ok |-> Some(CrcOk(line, 70, 73))])

parse_registro5(line) ==
    IF Len(line) < 118 THEN Err(LenError("Tipo 5 tamanho", Len(line), 118))
    ELSE Converted(<< _slice(line, 1, 9), _slice(line, 10, 10) >>,
        [nsr |-> PyInt(_slice(line, 1, 9)).v,
         tipo |-> PyInt(_slice(line, 10, 10)).v,
         dh_gravacao |-> _slice(line, 11, 34),
         operacao |-> _slice(line, 35, 35),
         cpf |-> Strip(_slice(line, 36, 47)),
         nome |-> RStrip(_slice(line, 48, 99)),
         demais_dados |-> RStrip(_slice(line, 100, 103)),
         cpf_responsavel |-> Strip(_slice(line, 104, 114)),
         crc16 |-> Upper(_slice(line, 115, 118)),
         crc_ok |-> Some(CrcOk(line, 115, 118))])

parse_registro6(line) ==
    IF Len(line) < 36 THEN Err(LenError("Tipo 6 tamanho", Len(line), 36))
    ELSE Converted(<< _slice(line, 1, 9), _slice(line, 10, 10) >>,
        [nsr |-> PyInt(_slice(line, 1, 9)).v,
         tipo |-> PyInt(_slice(line, 10, 10)).v,
         dh_gravacao |-> _slice(line, 11, 34),
         tipo_evento |-> _slice(line, 35, 36)])

parse_registro7(line) ==
    IF Len(line) < 137 THEN Err(LenError("Tipo 7 tamanho", Len(line), 137))
    ELSE Converted(<< _slice(line, 1, 9) >>,
        [nsr |-> PyInt(_slice(line, 1, 9)).v,
         tipo |-> _slice(line, 10, 10),
         dh_marcacao |-> _slice(line, 11, 34),
         cpf |-> Strip(_slice(line, 35, 46)),
         dh_gravacao |-> _slice(line, 47, 70),
         coletor_id |-> _slice(line, 71, 72),
         online_offline |-> _slice(line, 73, 73),
         hash256 |-> Strip(_slice(line, 74, 137))])

parse_registro9(line) ==
    IF Len(line) < 64 THEN Err(LenError("Tipo 9 tamanho", Len(line), 64))
    ELSE Converted(<< _slice(line, 1, 9), _slice(line, 10, 18), _slice(line, 19, 27),
                      _slice(line, 28, 36), _slice(line, 37, 45), _slice(line, 46, 54),
                      _slice(line, 55, 63), _slice(line, 64, 64) >>,
        [nsr |-> PyInt(_slice(line, 1, 9)).v,
         qtd_tipo2 |-> PyInt(_slice(line, 10, 18)).v,
         qtd_tipo3 |-> PyInt(_slice(line, 19, 27)).v,
         qtd_tipo4 |-> PyInt(_slice(line, 28, 36)).v,
         qtd_tipo5 |-> PyInt(_slice(line, 37, 45)).v,
         qtd_tipo6 |-> PyInt(_slice(line, 46, 54)).v,
         qtd_tipo7 |-> PyInt(_slice(line, 55, 63)).v,
         tipo |-> PyInt(_slice(line, 64, 64)).v])

\* line[-28:]
Last28(line) == SubSeq(line, Len(line) - 27, Len(line))

parse_registro1_compacto(line) ==
    IF Len(line) < 9 + 1 + 28 THEN Err(LenError("Tipo 1 compacto muito curto", Len(line), 38))
    ELSE IF ~PyInt(SubSeq(line, 1, 9)).ok THEN Err(IntError(SubSeq(line, 1, 9)))
    ELSE IF ~PyInt(<< line[10] >>).ok THEN Err(IntError(<< line[10] >>))
    ELSE IF ~_is_digits(Last28(line))
         THEN Err([kind |-> "Tipo 1 compacto sem bloco final de 28 digitos"])
    ELSE LET trail == Last28(line)
             di_iso == _ddmmaaaa_to_iso(SubSeq(trail, 1, 8))
             df_iso == _ddmmaaaa_to_iso(SubSeq(trail, 9, 16))
             dg_iso == _ddmmaaaa_to_iso(SubSeq(trail, 17, 24))
             hg == _hhmm_to_hhmm(SubSeq(trail, 25, 28))
         IN  Ok([nsr |-> PyInt(SubSeq(line, 1, 9)).v,
                 tipo |-> PyInt(<< line[10] >>).v,
                 id_empregador_tipo |-> None,
                 id_empregador |-> None,
                 cno_caepf |-> None,
                 razao_social |-> None,
                 numero_fabricacao_processo_ou_inpi |-> None,
                 data_inicio |-> di_iso,
                 data_fim |-> df_iso,
                 data_hora_geracao |->
                     IF dg_iso # None /\ hg # None
                     THEN Some(dg_iso[1] \o <<84>> \o hg[1] \o <<58, 48, 48, 45, 48, 51, 48, 48>>)
                     ELSE None,
                 versao_layout |-> None,
                 id_fabricante_tipo |-> None,
                 id_fabricante |-> None,
                 modelo_rep_c |-> None,
                 crc16 |-> None,
                 crc_ok |-> None])

parse_registro3_compacto(line) ==
    IF Len(line) < 34 THEN Err(LenError("Tipo 3 compacto muito curto", Len(line), 34))
    ELSE IF ~PyInt(SubSeq(line, 1, 9)).ok THEN Err(IntError(SubSeq(line, 1, 9)))
    ELSE LET d == SubSeq(line, 11, 18)
             h == SubSeq(line, 19, 22)
             di == _ddmmaaaa_to_iso(d)
             hh == _hhmm_to_hhmm(h)
         IN  IF di = None \/ hh = None
             THEN Err([kind |-> "Tipo 3 compacto com data/hora invalidas", d |-> d, h |-> h])
             ELSE Ok([nsr |-> PyInt(SubSeq(line, 1, 9)).v,
                      tipo |-> << line[10] >>,
                      dh_marcacao |-> di[1] \o <<84>> \o hh[1] \o <<58, 48, 48, 45, 48, 51, 48, 48>>,
                      cpf |-> Strip(SubSeq(line, 23, 34)),
                      crc16 |-> None,
                      crc_ok |-> None,
                      formato |-> "compacto"])

\* The two-layout policy of types 1 and 3: the official parser, on failure
\* the compact one, on both failing one error holding both messages.
\* A dispatcher that stops at the official layout.
SemFallback(what, oficial, compacto) ==
    IF oficial.ok THEN oficial
    ELSE Err([kind |-> what, e1 |-> oficial.e, e2 |-> compacto.e])

Fallback(what, oficial, compacto) ==
    IF oficial.ok THEN oficial
    ELSE IF compacto.ok THEN compacto
    ELSE Err([kind |-> what, e1 |-> oficial.e, e2 |-> compacto.e])

parse_tipo1(line) ==
    Fallback("Falha no tipo 1", parse_registro1_oficial(line), parse_registro1_compacto(line))

parse_tipo3(line) ==
    Fallback("Falha no tipo 3", parse_registro3_oficial(line), parse_registro3_compacto(line))

\* ------------------------------------------------------------------
\* Input lines
\* ------------------------------------------------------------------

RECURSIVE Digits(_, _)
\* n in decimal, zero-padded to w characters.
Digits(n, w) == IF w = 0 THEN <<>> ELSE Digits(n \div 10, w - 1) \o << 48 + (n % 10) >>

Fill(c, n) == [k \in 1..n |-> c]

Rep(x, n) == [k \in 1..n |-> x]

\* 2025-07-16THH:MM:00-0300
IsoDh(hh, mm) ==
    <<50, 48, 50, 53, 45, 48, 55, 45, 49, 54, 84>> \o Digits(hh, 2) \o <<58>>
        \o Digits(mm, 2) \o <<58, 48, 48, 45, 48, 51, 48, 48>>

Cpf12(n) == Digits(n, 12)

\* A line whose checksum field, between prefix and suffix, holds the checksum.
WithCrc(prefix, suffix) ==
    prefix \o Hex4(crc16_ibm_arc(prefix \o suffix)) \o suffix

\* The same line with another value in the checksum field.
WithBadCrc(prefix, suffix) ==
    prefix \o Hex4((crc16_ibm_arc(prefix \o suffix) + 1) % 65536) \o suffix

Head10(nsr, tipo) == Digits(nsr, 9) \o << tipo >>

Body3(nsr, hh, mm, cpf) == Head10(nsr, 51) \o IsoDh(hh, mm) \o Cpf12(cpf)

Body2(nsr) == Head10(nsr, 50) \o IsoDh(9, 0) \o Fill(49, 14) \o <<49>> \o Fill(50, 14)
                  \o Fill(32, 14) \o <<65, 67, 77, 69>> \o Fill(32, 146)
                  \o <<83, 80>> \o Fill(32, 98)

Body4(nsr) == Head10(nsr, 52) \o IsoDh(9, 0) \o IsoDh(9, 5) \o Fill(49, 11)

Body5(nsr) == Head10(nsr, 53) \o IsoDh(9, 0) \o <<73>> \o Cpf12(7) \o <<65, 78, 65>>
                  \o Fill(32, 49) \o Fill(32, 4) \o Fill(49, 11)

Body1(nsr) == Head10(nsr, 49) \o <<49>> \o Fill(50, 14) \o Fill(32, 14)
                  \o <<65, 67, 77, 69>> \o Fill(32, 146) \o Fill(51, 17)
                  \o <<50, 48, 50, 53, 45, 48, 55, 45, 48, 49>>
                  \o <<50, 48, 50, 53, 45, 48, 55, 45, 51, 49>>
                  \o IsoDh(18, 0) \o <<48, 48, 51>> \o <<49>> \o Fill(52, 14)
                  \o <<82, 69, 80>> \o Fill(32, 27)

\* NSR(9) + 3 + DDMMAAAA + HHMM + CPF(12)
Compacto3(nsr, hh, mm, cpf) ==
    Head10(nsr, 51) \o <<49, 54, 48, 55, 50, 48, 50, 53>> \o Digits(hh, 2)
        \o Digits(mm, 2) \o Cpf12(cpf)

\* A trailer: the count fields as texts of 9 characters, then the type digit.
Trailer(nsr, q2, q3, q4, q5, q6, q7, tipo) ==
    Digits(nsr, 9) \o q2 \o q3 \o q4 \o q5 \o q6 \o q7 \o << tipo >>

Zero9 == Digits(0, 9)

\* "9" and eight spaces: int() reads 9.
Nove9 == <<57>> \o Fill(32, 8)

Catalogue ==
    << <<32, 32>>,                                          \* 1 blank
       <<48, 48, 48, 48, 49>>,                              \* 2 shorter than 10
       <<65, 66, 67, 68, 69, 70, 71, 72, 73, 51, 48>>,      \* 3 NSR not digits
       Fill(48, 8) \o <<178>> \o SubSeq(Compacto3(2, 8, 0, 1), 10, 34), \* 4 NSR ends in superscript 2
       WithCrc(Body3(1, 8, 0, 1), <<>>),                    \* 5 type 3 official
       WithBadCrc(Body3(2, 12, 0, 1), <<>>),                \* 6 type 3 official, wrong checksum
       Compacto3(2, 13, 0, 1),                              \* 7 type 3 compact
       Head10(1, 51) \o Fill(88, 10),                       \* 8 type 3, 20 characters
       Head10(3, 56) \o Fill(48, 30),                       \* 9 type 8
       Head10(1, 49) \o Fill(48, 28),                       \* 10 type 1 compact
       WithBadCrc(Body1(1), <<>>),                          \* 11 type 1 official, wrong checksum
       Trailer(3, Nove9, Digits(1, 9), Zero9, Zero9, Zero9, Zero9, 57), \* 12 trailer
       Head10(3, 54) \o IsoDh(9, 0) \o <<48, 49>>,          \* 13 type 6
       WithCrc(Body2(2), <<>>),                             \* 14 type 2
       WithBadCrc(Body2(2), <<>>),                          \* 15 type 2, wrong checksum
       Head10(2, 50) \o Fill(32, 100),                      \* 16 type 2, too short
       WithCrc(Body4(2), <<>>),                             \* 17 type 4
       Head10(2, 52) \o Fill(32, 20),                       \* 18 type 4, too short
       WithBadCrc(Body5(2), <<>>),                          \* 19 type 5, wrong checksum
       Head10(2, 53) \o Fill(32, 20),                       \* 20 type 5, too short
       Head10(2, 54) \o Fill(32, 20),                       \* 21 type 6, too short
       Head10(2, 55) \o IsoDh(8, 0) \o Cpf12(1) \o IsoDh(8, 1) \o <<48, 49, 49>>
           \o Fill(65, 64),                                 \* 22 type 7
       Head10(2, 55) \o Fill(32, 20),                       \* 23 type 7, too short
       Head10(3, 57) \o Fill(48, 20),                       \* 24 type 9, too short
       Trailer(3, <<57>> \o Fill(88, 8), Zero9, Zero9, Zero9, Zero9, Zero9, 57), \* 25 trailer, count not a number
       WithCrc(Body1(1), <<>>),                             \* 26 type 1 official
       Head10(1, 49) \o Fill(88, 30),                       \* 27 type 1, neither layout
       Body3(3, 17, 0, 1) \o <<97, 98, 99, 100>>,           \* 28 type 3 official, checksum field abcd
       Head10(3, 51) \o <<49, 54, 48, 55, 50, 48, 50, 53, 49, 55, 51, 48>>
           \o Fill(88, 40),                                 \* 29 type 3, 62 characters, compact only
       Head10(3, 51) \o Fill(88, 30),                       \* 30 type 3, 40 characters, no digits
       Head10(3, 51) \o <<49, 54, 48, 55, 50, 48, 50, 53, 49, 55, 51, 48>>
           \o Fill(32, 27),                                 \* 31 type 3, 49 characters, compact
       WithCrc(Body3(3, 18, 0, 2), <<88>>),                 \* 32 type 3 official, 51 characters
       Trailer(3, Nove9, Zero9, Zero9, Zero9, Zero9, Zero9, 57), \* 33 trailer of 9 type-2 records
       Trailer(3, Nove9, Zero9, Zero9, Zero9, Zero9, Zero9, 48), \* 34 the same, type digit 0
       Trailer(3, Digits(9, 9), Zero9, Zero9, Zero9, Zero9, Zero9, 57), \* 35 trailer, count 000000009
       Trailer(3, Digits(200000000, 9), Zero9, Zero9, Zero9, Zero9, Zero9, 57),
                                                            \* 36 trailer, count 200000000
       Trailer(3, Digits(100000000, 9), Zero9, Zero9, Zero9, Zero9, Zero9, 57)
                                                            \* 37 trailer, count 100000000
    >>

\* ------------------------------------------------------------------
\* interpretar_afd
\* ------------------------------------------------------------------

\* The text of a line of the file (the file holds catalogue numbers).
Texto(ln) == Catalogue[ln]

\* Bounds of the input files.
MaxLines == 3
MaxTail == 1
MaxNsrLines == 4
CountSlack == 1
CapSlack == 1

\* erros[:200]
ErrCap == 200

CoreLines == (1..13) \ {2, 12}
ExtraLines == {2, 12} \cup (14..32) \cup (35..37)
NsrLines == {3, 5, 7, 8, 13}

RECURSIVE SeqsUpTo(_, _)
\* The sequences over S of length at most n.
SeqsUpTo(S, n) ==
    IF n = 0 THEN { <<>> }
    ELSE LET shorter == SeqsUpTo(S, n - 1)
         IN  shorter \cup { Append(q, x) : q \in { t \in shorter : Len(t) = n - 1 }, x \in S }

SeqsOf(S, n) == { q \in SeqsUpTo(S, n) : Len(q) = n }

\* The files the model reads: every short file of the core lines; every other
\* line followed by a short tail; files of MaxNsrLines lines for the order of
\* the NSRs; nine or so type-2 records and a trailer; and some two hundred
\* failing lines around one good line.
Files ==
    SeqsUpTo(CoreLines, MaxLines)
    \cup { <<x>> \o t : x \in ExtraLines, t \in SeqsUpTo(CoreLines, MaxTail) }
    \cup SeqsOf(NsrLines, MaxNsrLines)
    \cup { Rep(14, n) \o <<t>> : n \in 8..(9 + CountSlack), t \in {33, 34, 35} }
    \cup { <<8>> \o Rep(2, n) \o <<7, 9>> : n \in (ErrCap - 2)..(ErrCap + CapSlack) }

VARIABLES
    pc,               \* where the call is: call, pass1, pass2, done (idle: no call)
    file,             \* the lines of the text, as split at line breaks
    lines,            \* _split_lines: the non-blank lines
    idx,                \* the position of the running loop
    registros,        \* the (NSR, line) pairs of the first loop
    erros,
    ordem_nsr_ok,
    header,
    bucket,
    trailer,
    crc_ok_por_tipo,
    result,           \* None while running; then what the call raised or returned
    \* re-running the checksum verification of one type-3 line
    etapa,            \* idle, base, mutada, restaurada
    original,         \* the well-formed line
    atual,            \* the line as it is now
    veredito,         \* crc_ok of the line as it is now
    \* the summarizer
    chamada,          \* idle, gerar_jornadas_por_cpf or _sum_pairs
    passo,            \* agrupar, montar, ordenar, somar, fim
    dados,            \* the rows of the CSV of punches
    n_pares,
    ordenar_por,
    buckets,          \* the groups, in the order their keys were first seen
    linhas,           \* the rows of the output
    entrada,          \* the list a direct call of _sum_pairs is given
    retorno           \* what that call returned

ivars == << pc, file, lines, idx, registros, erros, ordem_nsr_ok, header, bucket,
            trailer, crc_ok_por_tipo, result >>

cvars == << etapa, original, atual, veredito >>

svars == << chamada, passo, dados, n_pares, ordenar_por, buckets, linhas, entrada, retorno >>

vars == << ivars, cvars, svars >>

BucketKeys == {"2", "3", "4", "5", "6", "7"}
CrcKeys == {"1", "2", "3", "4", "5"}

\* ln.strip() is empty
IsBlank(text) == Strip(text) = <<>>

NaoBranca(ln) == ~IsBlank(Texto(ln))

_split_lines(f) == SelectSeq(f, NaoBranca)

\* len(ln) < 10 or not _is_digits(ln[:9])
SemNsr(text) == Len(text) < 10 \/ ~_is_digits(SubSeq(text, 1, 9))

RECURSIVE Insert(_, _)
Insert(sorted, x) ==
    IF Len(sorted) = 0 THEN << x >>
    ELSE IF x < Head(sorted) THEN << x >> \o sorted
    ELSE << Head(sorted) >> \o Insert(Tail(sorted), x)

RECURSIVE Sorted(_)
\* sorted(ns)
Sorted(ns) == IF Len(ns) = 0 THEN <<>> ELSE Insert(Sorted(SubSeq(ns, 1, Len(ns) - 1)), ns[Len(ns)])

Nsrs(regs) == [k \in 1..Len(regs) |-> regs[k].nsr]

\* An order check that wants the NSRs strictly increasing.
OrdemNsrEstrita(regs) == \A k \in 1..(Len(regs) - 1) : regs[k].nsr < regs[k + 1].nsr

OrdemNsrOk(regs) == Nsrs(regs) = Sorted(Nsrs(regs))

\* all(v) if v else None
AllOrNone(v) == IF Len(v) = 0 THEN None ELSE Some(\A k \in 1..Len(v) : v[k])

\* A type read where the trailer's layout writes its own: column 64 of a
\* line that has one and has a 9 there, the 10th character otherwise.
TipoPelaColuna64(text) ==
    IF Len(text) >= 64 /\ text[64] = 57 THEN 57 ELSE text[10]

\* tipo = line[9]
TipoDaLinha(text) == text[10]

\* What the dispatcher does with one line: "header", "bucket", "trailer",
\* "desconhecido" (unknown type) or "erro" (the parser raised).
Despacho(text) ==
    LET tipo == TipoDaLinha(text)
        p == CASE tipo = 49 -> parse_tipo1(text)
               [] tipo = 50 -> parse_registro2(text)
               [] tipo = 51 -> parse_tipo3(text)
               [] tipo = 52 -> parse_registro4(text)
               [] tipo = 53 -> parse_registro5(text)
               [] tipo = 54 -> parse_registro6(text)
               [] tipo = 55 -> parse_registro7(text)
               [] tipo = 57 -> parse_registro9(text)
               [] OTHER -> Err(None)
        key == CASE tipo = 49 -> "1" [] tipo = 50 -> "2" [] tipo = 51 -> "3"
                 [] tipo = 52 -> "4" [] tipo = 53 -> "5" [] tipo = 54 -> "6"
                 [] tipo = 55 -> "7" [] tipo = 57 -> "9" [] OTHER -> "?"
    IN  [to |-> IF key = "?" THEN "desconhecido"
                ELSE IF ~p.ok THEN "erro"
                ELSE IF key = "1" THEN "header"
                ELSE IF key = "9" THEN "trailer"
                ELSE "bucket",
         key |-> key,
         p |-> p]

\* Despacho of every line of the catalogue that has a 10th character,
\* computed once.
Despachos ==
    [ln \in 1..Len(Catalogue) |->
        IF Len(Catalogue[ln]) >= 10 THEN Despacho(Catalogue[ln]) ELSE None] \o <<>>

\* An accumulation that counts a record without checksum as a good one.
CrcVerdictTodos(d) ==
    IF d.p.r.crc_ok = None THEN << TRUE >> ELSE << d.p.r.crc_ok[1] >>

\* The checksum verdicts a parsed record adds to crc_ok_por_tipo.
CrcVerdict(d) ==
    IF d.key \in {"2", "4", "5"} THEN << d.p.r.crc_ok[1] >>
    ELSE IF d.key \in {"1", "3"} /\ d.p.r.crc_ok # None THEN << d.p.r.crc_ok[1] >>
    ELSE <<>>

\* An accumulation that puts the newest record first.
AnexarNaFrente(b, d) ==
    IF d.to = "bucket" THEN [b EXCEPT ![d.key] = << d.p.r >> \o @] ELSE b

\* bucket[tipo].append(r), for the record of a line of types 2 to 7
Anexar(b, d) ==
    IF d.to = "bucket" THEN [b EXCEPT ![d.key] = Append(@, d.p.r)] ELSE b

\* A comparison of the counts that leaves the trailer's own type field out.
ContagensOkSemTipo(t, b) ==
    IF t # None
    THEN /\ t[1].qtd_tipo2 = Len(b["2"])
         /\ t[1].qtd_tipo3 = Len(b["3"])
         /\ t[1].qtd_tipo4 = Len(b["4"])
         /\ t[1].qtd_tipo5 = Len(b["5"])
         /\ t[1].qtd_tipo6 = Len(b["6"])
         /\ t[1].qtd_tipo7 = Len(b["7"])
    ELSE TRUE

ContagensOk(t, b) ==
    IF t # None
    THEN /\ t[1].qtd_tipo2 = Len(b["2"])
         /\ t[1].qtd_tipo3 = Len(b["3"])
         /\ t[1].qtd_tipo4 = Len(b["4"])
         /\ t[1].qtd_tipo5 = Len(b["5"])
         /\ t[1].qtd_tipo6 = Len(b["6"])
         /\ t[1].qtd_tipo7 = Len(b["7"])
         /\ t[1].tipo = 9
    ELSE TRUE

\* not any(bucket.values()) and not header and not trailer
NadaInterpretado(h, b, t) == (\A k \in BucketKeys : Len(b[k]) = 0) /\ h = None /\ t = None

Primeiros(s, n) == SubSeq(s, 1, Min(n, Len(s)))

\* A document that carries every error.
DocumentoSemCorte(h, b, t, ordem, crcs, errs) ==
    [header |-> h,
     registros_por_tipo |-> b,
     trailer |-> t,
     validacoes |->
        [ordem_nsr_ok |-> ordem,
         contagens_ok |-> IF t # None
                          THEN /\ t[1].qtd_tipo2 = Len(b["2"])
                               /\ t[1].qtd_tipo3 = Len(b["3"])
                               /\ t[1].qtd_tipo4 = Len(b["4"])
                               /\ t[1].qtd_tipo5 = Len(b["5"])
                               /\ t[1].qtd_tipo6 = Len(b["6"])
                               /\ t[1].qtd_tipo7 = Len(b["7"])
                               /\ t[1].tipo = 9
                          ELSE TRUE,
         crc_ok_por_tipo |->
            [k \in {"1", "2", "3", "4", "5"} |->
                IF Len(crcs[k]) = 0 THEN None
                ELSE Some(\A j \in 1..Len(crcs[k]) : crcs[k][j])],
         erros |-> errs]]

Documento(h, b, t, ordem, crcs, errs) ==
    [header |-> h,
     registros_por_tipo |-> b,
     trailer |-> t,
     validacoes |->
        [ordem_nsr_ok |-> ordem,
         contagens_ok |-> ContagensOk(t, b),
         crc_ok_por_tipo |-> [k \in CrcKeys |-> AllOrNone(crcs[k])],
         erros |-> Primeiros(errs, ErrCap)]]

Raised(kind, detail) == Some([raised |-> TRUE, kind |-> kind, detail |-> detail])
Returned(doc) == Some([raised |-> FALSE, doc |-> doc])

\* No checksum re-run and no summarizer call is in progress.
CrcIdle == etapa = "idle" /\ original = <<>> /\ atual = <<>> /\ veredito = None

SumIdle ==
    /\ chamada = "idle" /\ passo = "fim" /\ dados = <<>> /\ n_pares = 0
    /\ ordenar_por = "data_cpf" /\ buckets = <<>> /\ linhas = <<>>
    /\ entrada = <<>> /\ retorno = None

\* No call of interpretar_afd is in progress.
AfdIdle ==
    /\ pc = "idle" /\ file = <<>> /\ lines = <<>> /\ idx = 0 /\ registros = <<>>
    /\ erros = <<>> /\ ordem_nsr_ok = TRUE /\ header = None
    /\ bucket = [k \in BucketKeys |-> <<>>] /\ trailer = None
    /\ crc_ok_por_tipo = [k \in CrcKeys |-> <<>>] /\ result = None

Init ==
    /\ file \in Files
    /\ pc = "call"
    /\ lines = <<>>
    /\ idx = 0
    /\ registros = <<>>
    /\ erros = <<>>
    /\ ordem_nsr_ok = TRUE
    /\ header = None
    /\ bucket = [k \in BucketKeys |-> <<>>]
    /\ trailer = None
    /\ crc_ok_por_tipo = [k \in CrcKeys |-> <<>>]
    /\ result = None
    /\ CrcIdle
    /\ SumIdle

\* Lines 239-245: read and split the text; an empty file raises.
Ler ==
    /\ UNCHANGED << cvars, svars >>
    /\ pc = "call"
    /\ lines' = _split_lines(file)
    /\ IF Len(lines') = 0
       THEN /\ result' = Raised("Arquivo vazio", <<>>)
            /\ pc' = "done"
            /\ idx' = idx
       ELSE /\ result' = result
            /\ pc' = "pass1"
            /\ idx' = 1
    /\ UNCHANGED << file, registros, erros, ordem_nsr_ok, header, bucket, trailer,
                    crc_ok_por_tipo >>

\* Lines 247-251: one turn of the first loop. int(ln[:9]) is outside any try.
Classificar ==
    /\ UNCHANGED << cvars, svars >>
    /\ pc = "pass1"
    /\ idx <= Len(lines)
    /\ LET text == Texto(lines[idx])
           nsr == PyInt(SubSeq(text, 1, 9))
       IN  IF SemNsr(text)
           THEN /\ erros' = Append(erros, [kind |-> "Linha invalida (sem NSR)",
                                            ln |-> lines[idx], pos |-> idx])
                /\ UNCHANGED << registros, result, pc >>
                /\ idx' = idx + 1
           ELSE IF ~nsr.ok
           THEN /\ result' = Raised("invalid literal for int()", SubSeq(text, 1, 9))
                /\ pc' = "done"
                /\ UNCHANGED << registros, erros, idx >>
           ELSE /\ registros' = Append(registros, [nsr |-> nsr.v, ln |-> lines[idx], pos |-> idx])
                /\ UNCHANGED << erros, result, pc >>
                /\ idx' = idx + 1
    /\ UNCHANGED << file, lines, ordem_nsr_ok, header, bucket, trailer, crc_ok_por_tipo >>

\* Lines 253-259: the order of the NSRs, and the empty accumulators.
Ordem ==
    /\ UNCHANGED << cvars, svars >>
    /\ pc = "pass1"
    /\ idx > Len(lines)
    /\ ordem_nsr_ok' = OrdemNsrOk(registros)
    /\ pc' = "pass2"
    /\ idx' = 1
    /\ UNCHANGED << file, lines, registros, erros, header, bucket, trailer,
                    crc_ok_por_tipo, result >>

\* Lines 261-314: one turn of the second loop.
Despachar ==
    /\ UNCHANGED << cvars, svars >>
    /\ pc = "pass2"
    /\ idx <= Len(registros)
    /\ LET reg == registros[idx]
           text == Texto(reg.ln)
           d == Despachos[reg.ln]
       IN  /\ header' = IF d.to = "header" THEN Some(d.p.r) ELSE header
           /\ trailer' = IF d.to = "trailer" THEN Some(d.p.r) ELSE trailer
           /\ bucket' = Anexar(bucket, d)
           /\ crc_ok_por_tipo' =
                 IF d.to \in {"header", "bucket"} /\ d.key \in CrcKeys
                 THEN [crc_ok_por_tipo EXCEPT ![d.key] = @ \o CrcVerdict(d)]
                 ELSE crc_ok_por_tipo
           /\ erros' =
                 IF d.to = "desconhecido"
                 THEN Append(erros, [kind |-> "Tipo desconhecido", tipo |-> text[10],
                                     pos |-> reg.pos])
                 ELSE IF d.to = "erro"
                 THEN Append(erros, [kind |-> "Erro ao parsear", nsr |-> SubSeq(text, 1, 9),
                                     tipo |-> text[10], e |-> d.p.e, pos |-> reg.pos])
                 ELSE erros
    /\ idx' = idx + 1
    /\ UNCHANGED << pc, file, lines, registros, ordem_nsr_ok, result >>

\* Lines 316-342: the counts, then the error of an uninterpretable file or
\* the document.
Concluir ==
    /\ UNCHANGED << cvars, svars >>
    /\ pc = "pass2"
    /\ idx > Len(registros)
    /\ result' = IF NadaInterpretado(header, bucket, trailer)
                 THEN Raised("Nenhum registro foi interpretado", Primeiros(erros, 3))
                 ELSE Returned(Documento(header, bucket, trailer, ordem_nsr_ok,
                                         crc_ok_por_tipo, erros))
    /\ pc' = "done"
    /\ UNCHANGED << file, lines, idx, registros, erros, ordem_nsr_ok, header, bucket,
                    trailer, crc_ok_por_tipo >>

Next == Ler \/ Classificar \/ Ordem \/ Despachar \/ Concluir

Spec == Init /\ [][Next]_vars

\* ------------------------------------------------------------------
\* Re-running the checksum verification of an official type-3 line
\* ------------------------------------------------------------------

\* Bounds of the lines and of the changes made to them.
MaxCpfCrc == 2
MaxDelta == 2

LowerCode(c) == IF c \in 65..90 THEN c + 32 ELSE c

\* The line with its characters a..b replaced by campo.
ComCampo(line, a, campo) ==
    [k \in 1..Len(line) |->
        IF k >= a /\ k < a + Len(campo) THEN campo[k - a + 1] ELSE line[k]]

\* The line with the letters of its checksum field in lower case.
CampoMinusculo(line) ==
    [k \in 1..Len(line) |-> IF k \in 47..50 THEN LowerCode(line[k]) ELSE line[k]]

\* Well-formed official type-3 lines whose checksum field holds the checksum,
\* in upper or lower case, with and without text after the field.
LinhasBase ==
    LET plain == { WithCrc(Body3(1, 8, 0, cpf), cauda) :
                      cpf \in 1..MaxCpfCrc, cauda \in { <<>>, <<88>> } }
    IN  plain \cup { CampoMinusculo(b) : b \in plain }

\* The bit of weight w of c, flipped.
Flip(c, w) == IF (c \div w) % 2 = 1 THEN c - w ELSE c + w

\* The bytes a character is changed to: each single-bit change and the next
\* few byte values.
OutrosBytes(c) ==
    ({ Flip(c, w) : w \in {1, 2, 4, 8, 16, 32, 64, 128} }
        \cup { (c + d) % 256 : d \in 1..MaxDelta }) \ { c }

\* The value a checksum field holds (its hexadecimal digits read in either case).
HexValue(campo) ==
    LET dig(c) == IF c \in 48..57 THEN c - 48 ELSE UpperCode(c) - 55
    IN  dig(campo[1]) * 4096 + dig(campo[2]) * 256 + dig(campo[3]) * 16 + dig(campo[4])

\* The 4-hex-digit fields of another value a checksum field is changed to.
OutrosCampos(campo) ==
    LET v == HexValue(campo)
        vs == ({ (v + d) % 65536 : d \in 1..MaxDelta }
                  \cup { Flip(v, w) : w \in {1, 16, 256, 4096, 32768} }
                  \cup { 0, 65535 }) \ { v }
    IN  { Hex4(x) : x \in vs } \cup { [k \in 1..4 |-> LowerCode(Hex4(x)[k])] : x \in vs }

\* The checksum verification of parse_registro3_oficial, and the record the
\* parser returns when the line still parses.
Verificacao(line) ==
    LET p == parse_registro3_oficial(line)
    IN  [crc_ok |-> CrcOk(line, 47, 50),
         registro |-> IF p.ok THEN Some(p.r) ELSE None]

InitCrc ==
    /\ AfdIdle
    /\ SumIdle
    /\ original \in LinhasBase
    /\ atual = original
    /\ veredito = Some(Verificacao(original))
    /\ etapa = "base"

\* One byte outside the checksum field becomes another byte.
MutarByte ==
    /\ etapa = "base"
    /\ \E k \in (1..Len(atual)) \ (47..50) :
          \E c \in OutrosBytes(atual[k]) :
              /\ atual' = [atual EXCEPT ![k] = c]
              /\ veredito' = Some(Verificacao(atual'))
    /\ etapa' = "mutada"
    /\ UNCHANGED << original, ivars, svars >>

\* The checksum field becomes another 4-hex-digit value.
MutarCampo ==
    /\ etapa = "base"
    /\ \E campo \in OutrosCampos(SubSeq(atual, 47, 50)) :
          /\ atual' = ComCampo(atual, 47, campo)
          /\ veredito' = Some(Verificacao(atual'))
    /\ etapa' = "mutada"
    /\ UNCHANGED << original, ivars, svars >>

\* What was changed gets its original value back.
Restaurar ==
    /\ etapa = "mutada"
    /\ atual' = original
    /\ veredito' = Some(Verificacao(atual'))
    /\ etapa' = "restaurada"
    /\ UNCHANGED << original, ivars, svars >>

NextCrc == MutarByte \/ MutarCampo \/ Restaurar

SpecCrc == InitCrc /\ [][NextCrc]_vars

\* ------------------------------------------------------------------
\* summarizer.py
\* ------------------------------------------------------------------

\* N_PARES
N_PARES == 4

\* timedelta(hours=10) and timedelta(hours=6), in seconds
Limite10h == 36000
Limite6h == 21600

RECURSIVE DecValue(_)
\* The number a run of decimal digits writes.
DecValue(s) ==
    IF Len(s) = 0 THEN 0
    ELSE 10 * DecValue(SubSeq(s, 1, Len(s) - 1)) + (s[Len(s)] - 48)

Bissexto(y) == (y % 4 = 0 /\ y % 100 # 0) \/ y % 400 = 0

DiasNoMes(y, m) ==
    IF m = 2 THEN (IF Bissexto(y) THEN 29 ELSE 28)
    ELSE IF m \in {4, 6, 9, 11} THEN 30 ELSE 31

RECURSIVE DiasAntesDoMes(_, _)
DiasAntesDoMes(y, m) ==
    IF m = 1 THEN 0 ELSE DiasAntesDoMes(y, m - 1) + DiasNoMes(y, m - 1)

\* date.toordinal()
Ordinal(y, m, d) ==
    365 * (y - 1) + ((y - 1) \div 4) - ((y - 1) \div 100) + ((y - 1) \div 400)
        + DiasAntesDoMes(y, m) + d

\* datetime.strptime(s, "%Y-%m-%dT%H:%M:00%z") on a text of the fixed-width
\* shape YYYY-MM-DDTHH:MM:00+HHMM; None when strptime raises. The offset is
\* kept in minutes.
_parse_iso_dh(s) ==
    LET digitos(a, b) == \A k \in a..b : s[k] \in DecimalCodes
    IN  IF Len(s) # 24 THEN None
        ELSE IF ~(/\ digitos(1, 4) /\ s[5] = 45 /\ digitos(6, 7) /\ s[8] = 45
                  /\ digitos(9, 10) /\ s[11] = 84 /\ digitos(12, 13) /\ s[14] = 58
                  /\ digitos(15, 16) /\ SubSeq(s, 17, 19) = <<58, 48, 48>>
                  /\ s[20] \in {43, 45} /\ digitos(21, 24))
        THEN None
        ELSE LET ano == DecValue(SubSeq(s, 1, 4))
                 mes == DecValue(SubSeq(s, 6, 7))
                 dia == DecValue(SubSeq(s, 9, 10))
                 hora == DecValue(SubSeq(s, 12, 13))
                 minuto == DecValue(SubSeq(s, 15, 16))
                 oh == DecValue(SubSeq(s, 21, 22))
                 om == DecValue(SubSeq(s, 23, 24))
             IN  IF \/ ano < 1 \/ mes \notin 1..12 \/ dia < 1
                    \/ hora > 23 \/ minuto > 59 \/ om > 59 \/ oh > 23
                 THEN None
                 ELSE IF dia > DiasNoMes(ano, mes) THEN None
                 ELSE Some([ano |-> ano, mes |-> mes, dia |-> dia, hora |-> hora,
                            minuto |-> minuto,
                            off |-> IF s[20] = 45 THEN 0 - (60 * oh + om)
                                    ELSE 60 * oh + om])

\* The instant of an aware datetime, in minutes: what comparison and
\* subtraction of two datetimes go by.
Instant(dt) ==
    1440 * Ordinal(dt.ano, dt.mes, dt.dia) + 60 * dt.hora + dt.minuto - dt.off

RECURSIVE Decimal(_)
Decimal(n) == IF n < 10 THEN << 48 + n >> ELSE Decimal(n \div 10) \o << 48 + (n % 10) >>

\* f"{n:02d}"
Pad2(n) == IF n < 10 THEN << 48, 48 + n >> ELSE Decimal(n)

\* f"{n:04d}"
Pad4(n) == IF n < 1000 THEN Digits(n, 4) ELSE Decimal(n)

\* dt.date().isoformat()
DataLocal(dt) == Pad4(dt.ano) \o <<45>> \o Pad2(dt.mes) \o <<45>> \o Pad2(dt.dia)

\* dt.strftime("%Y-%m-%d %H:%M") if dt else ""
_format_dh(dt) ==
    IF dt = None THEN <<>>
    ELSE DataLocal(dt[1]) \o <<32>> \o Pad2(dt[1].hora) \o <<58>> \o Pad2(dt[1].minuto)

\* A timedelta is a number of seconds.
_format_td_hhmm(td) ==
    LET total == IF td < 0 THEN 0 ELSE td
    IN  Pad2(total \div 3600) \o <<58>> \o Pad2((total % 3600) \div 60)

RECURSIVE SumPairsSemResto(_, _, _, _)
\* A pairing that drops an entry without exit.
SumPairsSemResto(times, k, total, pares) ==
    IF k + 1 > Len(times) THEN [total |-> total, pares |-> pares]
    ELSE LET e == times[k]
             s == times[k + 1]
         IN  SumPairsSemResto(times, k + 2,
                 IF Instant(s) > Instant(e)
                 THEN total + 60 * (Instant(s) - Instant(e)) ELSE total,
                 Append(pares, << Some(e), Some(s) >>))

RECURSIVE SumPairsFrom(_, _, _, _)
\* The loop of _sum_pairs from position k (counted from 1).
SumPairsFrom(times, k, total, pares) ==
    IF k > Len(times) THEN [total |-> total, pares |-> pares]
    ELSE LET e == times[k]
             s == IF k + 1 <= Len(times) THEN Some(times[k + 1]) ELSE None
         IN  SumPairsFrom(times, k + 2,
                 IF s # None /\ Instant(s[1]) > Instant(e)
                 THEN total + 60 * (Instant(s[1]) - Instant(e)) ELSE total,
                 Append(pares, << Some(e), s >>))

\* A pairing that drops the last entry of an odd list.
SomaSemParIncompleto(times) == SumPairsSemResto(times, 1, 0, <<>>)

_sum_pairs(times) == SumPairsFrom(times, 1, 0, <<>>)

RECURSIVE InsertTime(_, _)
InsertTime(sorted, x) ==
    IF Len(sorted) = 0 THEN << x >>
    ELSE IF Instant(x) < Instant(Head(sorted)) THEN << x >> \o sorted
    ELSE << Head(sorted) >> \o InsertTime(Tail(sorted), x)

\* A group left in the order of arrival.
SemOrdenar(ts) == ts

RECURSIVE SortTimes(_)
\* times.sort(): ascending by instant, equal instants in their order of arrival
SortTimes(ts) ==
    IF Len(ts) = 0 THEN <<>>
    ELSE InsertTime(SortTimes(SubSeq(ts, 1, Len(ts) - 1)), ts[Len(ts)])

\* buckets[(cpf, data_local)].append(dt)
Acrescentar(acc, cpf, data, dt) ==
    IF \E g \in 1..Len(acc) : acc[g].cpf = cpf /\ acc[g].data = data
    THEN [g \in 1..Len(acc) |->
            IF acc[g].cpf = cpf /\ acc[g].data = data
            THEN [acc[g] EXCEPT !.times = Append(@, dt)] ELSE acc[g]]
    ELSE Append(acc, [cpf |-> cpf, data |-> data, times |-> << dt >>])

RECURSIVE AgruparLinhas(_, _, _)
\* The grouping loop from row k on.
AgruparLinhas(rows, k, acc) ==
    IF k > Len(rows) THEN acc
    ELSE LET cpf == Strip(rows[k].cpf)
             dh == Strip(rows[k].dh_marcacao)
             dt == _parse_iso_dh(dh)
         IN  IF Len(cpf) = 0 \/ Len(dh) = 0 \/ dt = None
             THEN AgruparLinhas(rows, k + 1, acc)
             ELSE AgruparLinhas(rows, k + 1, Acrescentar(acc, cpf, DataLocal(dt[1]), dt[1]))

\* Both overtime figures measured against the 6h threshold.
HorasExtrasDe6h(total, limite) == IF total > Limite6h THEN total - Limite6h ELSE 0

\* total - limite if total > limite else timedelta(0)
HorasExtras(total, limite) == IF total > limite THEN total - limite ELSE 0

\* The row of one group: its first n pairs rendered, its total and the two
\* overtime figures; total and pares are the loop's local values.
Linha(g, n) ==
    LET sp == _sum_pairs(SortTimes(g.times))
        extra_10h == HorasExtras(sp.total, Limite10h)
        extra_6h == HorasExtras(sp.total, Limite6h)
    IN  [cpf |-> g.cpf,
         data |-> g.data,
         entrada_saida |->
            [k \in 1..n |->
                IF k <= Len(sp.pares)
                THEN << _format_dh(sp.pares[k][1]), _format_dh(sp.pares[k][2]) >>
                ELSE << <<>>, <<>> >>],
         horas_trabalhadas |-> _format_td_hhmm(sp.total),
         horas_extras_maior_10h |-> _format_td_hhmm(extra_10h),
         horas_extras_maior_6h |-> _format_td_hhmm(extra_6h),
         total |-> sp.total,
         pares |-> sp.pares]

RECURSIVE StrLess(_, _)
\* a < b between two strings
StrLess(a, b) ==
    IF Len(b) = 0 THEN FALSE
    ELSE IF Len(a) = 0 THEN TRUE
    ELSE IF Head(a) # Head(b) THEN Head(a) < Head(b)
    ELSE StrLess(Tail(a), Tail(b))

\* A key that ignores the ordering mode.
ChaveSempreData(r, modo) == << r.data, r.cpf >>

\* The sort key of a row under each ordering mode.
Chave(r, modo) == IF modo = "cpf_data" THEN << r.cpf, r.data >> ELSE << r.data, r.cpf >>

ChaveLess(x, y) == StrLess(x[1], y[1]) \/ (x[1] = y[1] /\ StrLess(x[2], y[2]))

RECURSIVE InsertLinha(_, _, _)
InsertLinha(sorted, r, modo) ==
    IF Len(sorted) = 0 THEN << r >>
    ELSE IF ChaveLess(Chave(r, modo), Chave(Head(sorted), modo)) THEN << r >> \o sorted
    ELSE << Head(sorted) >> \o InsertLinha(Tail(sorted), r, modo)

RECURSIVE SortLinhas(_, _)
\* linhas.sort(key=...)
SortLinhas(rs, modo) ==
    IF Len(rs) = 0 THEN <<>>
    ELSE InsertLinha(SortLinhas(SubSeq(rs, 1, Len(rs) - 1), modo), rs[Len(rs)], modo)

\* Bounds of the summarizer's inputs.
MaxMarcas == 4
MaxMistas == 2
MaxPares == 2

\* A timestamp text of July 2025.
Dh(dia, hh, mm, sinal, oh) ==
    <<50, 48, 50, 53, 45, 48, 55, 45>> \o Digits(dia, 2) \o <<84>> \o Digits(hh, 2)
        \o <<58>> \o Digits(mm, 2) \o <<58, 48, 48, sinal>> \o Digits(oh, 2) \o <<48, 48>>

Marcas ==
    << Dh(16, 8, 0, 45, 3),                         \* 1  08:00 -0300
       Dh(16, 12, 0, 45, 3),                        \* 2  12:00
       Dh(16, 13, 0, 45, 3),                        \* 3  13:00
       Dh(16, 17, 0, 45, 3),                        \* 4  17:00
       Dh(16, 19, 30, 45, 3),                       \* 5  19:30
       Dh(16, 9, 0, 45, 2),                         \* 6  09:00 -0200, the instant of 1
       Dh(17, 8, 0, 45, 3),                         \* 7  the next day
       SubSeq(Dh(16, 8, 0, 45, 3), 1, 17) \o <<51, 48>> \o <<45, 48, 51, 48, 48>>,
                                                    \* 8  seconds 30
       <<>>,                                        \* 9  empty
       <<32>> \o Dh(16, 12, 0, 45, 3) \o <<32>>,    \* 10 12:00 between spaces
       <<50, 48, 50, 53, 45, 49, 51, 45>> \o SubSeq(Dh(16, 8, 0, 45, 3), 9, 24),
                                                    \* 11 month 13
       Dh(16, 23, 30, 43, 0),                       \* 12 23:30 +0000
       Dh(16, 14, 0, 45, 3),                        \* 13 14:00, 6h after 1
       Dh(16, 18, 0, 45, 3),                        \* 14 18:00, 10h after 1
       Dh(16, 18, 1, 45, 3),                        \* 15 18:01
       Dh(16, 14, 1, 45, 3)                         \* 16 14:01
    >>

Cpfs ==
    << <<48, 48, 49>>,          \* 1 "001"
       <<48, 48, 50>>,          \* 2 "002"
       <<32, 48, 48, 49>>,      \* 3 " 001"
       <<>> >>                  \* 4 empty

Row(c, m) == [cpf |-> Cpfs[c], dh_marcacao |-> Marcas[m]]

\* The rows of the mixed inputs.
RowsMistas ==
    { Row(1, 1), Row(1, 2), Row(2, 1), Row(2, 7), Row(1, 7), Row(3, 10), Row(4, 1),
      Row(1, 9), Row(1, 8), Row(1, 6), Row(2, 11), Row(1, 12) }

\* One person's punches of one day, in any order of arrival.
DiasCheios == SeqsUpTo({ Row(1, m) : m \in 1..5 }, MaxMarcas)

\* One person's days that end at, or a minute past, one of the two limits.
DiasNoLimite == { << Row(1, 1), Row(1, m) >> : m \in 13..16 }

\* The lists a direct call of _sum_pairs is given.
ListasDeTimes == SeqsUpTo({ _parse_iso_dh(Marcas[m])[1] : m \in 1..4 }, MaxMarcas)

InitSum ==
    /\ AfdIdle
    /\ CrcIdle
    /\ buckets = <<>>
    /\ linhas = <<>>
    /\ retorno = None
    /\ \/ /\ chamada = "gerar_jornadas_por_cpf"
          /\ passo = "agrupar"
          /\ entrada = <<>>
          /\ \/ /\ dados \in DiasCheios
                /\ n_pares \in (1..MaxPares) \cup { N_PARES }
                /\ ordenar_por = "data_cpf"
             \/ /\ dados \in DiasNoLimite
                /\ n_pares = 1
                /\ ordenar_por = "data_cpf"
             \/ /\ dados \in SeqsUpTo(RowsMistas, MaxMistas)
                /\ n_pares = 1
                /\ ordenar_por \in { "data_cpf", "cpf_data" }
       \/ /\ chamada = "_sum_pairs"
          /\ passo = "somar"
          /\ entrada \in ListasDeTimes
          /\ dados = <<>>
          /\ n_pares = 0
          /\ ordenar_por = "data_cpf"

\* Lines 61-77: the rows are grouped by (cpf, local date).
Agrupar ==
    /\ chamada = "gerar_jornadas_por_cpf"
    /\ passo = "agrupar"
    /\ buckets' = AgruparLinhas(dados, 1, <<>>)
    /\ passo' = "montar"
    /\ UNCHANGED << chamada, dados, n_pares, ordenar_por, linhas, entrada, retorno >>
    /\ UNCHANGED << ivars, cvars >>

\* Lines 85-108: one row per group, in the order of the groups.
Montar ==
    /\ chamada = "gerar_jornadas_por_cpf"
    /\ passo = "montar"
    /\ linhas' = [g \in 1..Len(buckets) |-> Linha(buckets[g], n_pares)]
    /\ passo' = "ordenar"
    /\ UNCHANGED << chamada, dados, n_pares, ordenar_por, buckets, entrada, retorno >>
    /\ UNCHANGED << ivars, cvars >>

\* Lines 110-124: the rows are sorted and written.
OrdenarSaida ==
    /\ chamada = "gerar_jornadas_por_cpf"
    /\ passo = "ordenar"
    /\ linhas' = SortLinhas(linhas, ordenar_por)
    /\ retorno' = Some(linhas')
    /\ passo' = "fim"
    /\ UNCHANGED << chamada, dados, n_pares, ordenar_por, buckets, entrada >>
    /\ UNCHANGED << ivars, cvars >>

\* A call of _sum_pairs on a list of datetimes.
SomarPares ==
    /\ chamada = "_sum_pairs"
    /\ passo = "somar"
    /\ retorno' = Some(_sum_pairs(entrada))
    /\ passo' = "fim"
    /\ UNCHANGED << chamada, dados, n_pares, ordenar_por, buckets, linhas, entrada >>
    /\ UNCHANGED << ivars, cvars >>

NextSum == Agrupar \/ Montar \/ OrdenarSaida \/ SomarPares

SpecSum == InitSum /\ [][NextSum]_vars

\* ------------------------------------------------------------------
\* Properties of interpretar_afd
\* ------------------------------------------------------------------

Retornou == pc = "done" /\ ~result[1].raised

Doc == result[1].doc

\* C1: for an input with at least one non-blank line, no line makes the call
\* raise while the line loops run: the only exception the call raises is the
\* final 'nothing interpreted' error.
C1_FalhasSuaves ==
    (pc = "done" /\ Len(lines) > 0 /\ result[1].raised)
        => result[1].kind = "Nenhum registro foi interpretado"

\* The count the trailer reports for a type.
QtdTrailer(t, k) ==
    CASE k = "2" -> t.qtd_tipo2 [] k = "3" -> t.qtd_tipo3 [] k = "4" -> t.qtd_tipo4
      [] k = "5" -> t.qtd_tipo5 [] k = "6" -> t.qtd_tipo6 [] k = "7" -> t.qtd_tipo7

ContagensIguais(doc) ==
    \A k \in BucketKeys : Len(doc.registros_por_tipo[k]) = QtdTrailer(doc.trailer[1], k)

\* C2 as stated: in a returned document with a trailer, contagens_ok is true
\* only if every bucket length equals the trailer's count, and false only if
\* some bucket length differs from it.
C2_ContagensSoQuantidades ==
    (Retornou /\ Doc.trailer # None)
        => (Doc.validacoes.contagens_ok <=> ContagensIguais(Doc))

\* C2, amended: contagens_ok is true iff there is no trailer, or every bucket
\* length of types 2..7 equals the trailer's count and the trailer's own type
\* field (column 64) is 9.
C2_Contagens ==
    Retornou =>
        (Doc.validacoes.contagens_ok
            <=> (Doc.trailer = None
                 \/ (ContagensIguais(Doc) /\ Doc.trailer[1].tipo = 9)))

C2_Witness ==
    /\ Retornou
    /\ Doc.trailer # None
    /\ Doc.validacoes.contagens_ok
    /\ Len(Doc.registros_por_tipo["2"]) = 9

\* The NSR of every line of the catalogue that passes the structural check.
NsrDaLinha ==
    [ln \in 1..Len(Catalogue) |->
        IF SemNsr(Catalogue[ln]) THEN None
        ELSE Some(PyInt(SubSeq(Catalogue[ln], 1, 9)).v)] \o <<>>

Classificavel(ln) == NsrDaLinha[ln] # None

\* The NSRs of the classifiable lines, in file order.
NsrsDoArquivo ==
    LET c == SelectSeq(lines, Classificavel)
    IN  [k \in 1..Len(c) |-> NsrDaLinha[c[k]][1]]

NaoDecrescente(q) == \A k \in 1..(Len(q) - 1) : q[k] <= q[k + 1]

\* C3: ordem_nsr_ok is true iff the NSRs of the classifiable lines, in file
\* order, never decrease; [1,2,2,3] gives true and [2,1,3] gives false.
C3_OrdemNsr ==
    Retornou =>
        /\ Doc.validacoes.ordem_nsr_ok <=> NaoDecrescente(NsrsDoArquivo)
        /\ NsrsDoArquivo = <<1, 2, 2, 3>> => Doc.validacoes.ordem_nsr_ok
        /\ NsrsDoArquivo = <<2, 1, 3>> => ~Doc.validacoes.ordem_nsr_ok

C3_Witness ==
    /\ Retornou
    /\ NsrsDoArquivo = <<1, 2, 2, 3>>
    /\ Doc.validacoes.ordem_nsr_ok

\* What each layout of type 3 makes of every line of the catalogue.
TentativaOficial3 ==
    [ln \in 1..Len(Catalogue) |-> parse_registro3_oficial(Catalogue[ln])] \o <<>>

TentativaCompacto3 ==
    [ln \in 1..Len(Catalogue) |-> parse_registro3_compacto(Catalogue[ln])] \o <<>>

Ultimo(q) == q[Len(q)]

\* One turn of the second loop on a type-3 line.
C4_Passo ==
    (pc = "pass2" /\ idx <= Len(registros) /\ Texto(registros[idx].ln)[10] = 51) =>
        LET ln == registros[idx].ln
            text == Texto(ln)
            o == TentativaOficial3[ln]
            c == TentativaCompacto3[ln]
        IN  /\ (Len(text) \in 34..49 /\ _is_digits(_slice(text, 11, 22)))
                    => (~o.ok /\ c.ok)
            /\ IF o.ok
               THEN /\ bucket' = [bucket EXCEPT !["3"] = Append(@, o.r)]
                    /\ o.r.formato = "oficial"
                    /\ erros' = erros
               ELSE IF c.ok
               THEN /\ bucket' = [bucket EXCEPT !["3"] = Append(@, c.r)]
                    /\ c.r.formato = "compacto"
                    /\ c.r.crc16 = None /\ c.r.crc_ok = None
                    /\ SubSeq(c.r.dh_marcacao, 20, 24) = <<45, 48, 51, 48, 48>>
                    /\ erros' = erros
               ELSE /\ bucket' = bucket
                    /\ Len(erros') = Len(erros) + 1
                    /\ Ultimo(erros').kind = "Erro ao parsear"
                    /\ Ultimo(erros').e = [kind |-> "Falha no tipo 3", e1 |-> o.e, e2 |-> c.e]
            /\ header' = header /\ trailer' = trailer

\* C4: a type-3 line goes to bucket '3' as 'oficial' when the official parser
\* succeeds, else as 'compacto' (no checksum, offset -0300) when the compact
\* parser succeeds, else it leaves one error holding both messages and enters
\* no bucket.
C4_Fallback == [][C4_Passo]_vars

C4_Witness ==
    /\ pc = "done"
    /\ \E k \in 1..Len(bucket["3"]) : bucket["3"][k].formato = "oficial"
    /\ \E k \in 1..Len(bucket["3"]) : bucket["3"][k].formato = "compacto"
    /\ \E k \in 1..Len(erros) :
          erros[k].kind = "Erro ao parsear" /\ erros[k].e.kind = "Falha no tipo 3"

\* C6: the call raises the 'nothing interpreted' error, with at most three
\* errors in it, exactly when no header, no trailer and no record was set;
\* otherwise it returns a document.
C6_NadaInterpretado ==
    pc = "done" =>
        IF NadaInterpretado(header, bucket, trailer)
        THEN /\ result[1].raised
             /\ result[1].kind \in {"Nenhum registro foi interpretado", "Arquivo vazio"}
             /\ Len(result[1].detail) <= 3
        ELSE ~result[1].raised

\* The crc_ok of the records of one type that were parsed from the file.
CrcsLidos(key) ==
    { Despachos[registros[k].ln].p.r.crc_ok :
        k \in { j \in 1..Len(registros) :
                  /\ Despachos[registros[j].ln].to \in {"header", "bucket"}
                  /\ Despachos[registros[j].ln].key = key } } \ { None }

CrcsDoBucket(doc, key) ==
    { doc.registros_por_tipo[key][k].crc_ok :
        k \in 1..Len(doc.registros_por_tipo[key]) } \ { None }

TriEstado(S) ==
    IF S = {} THEN None ELSE IF Some(FALSE) \in S THEN Some(FALSE) ELSE Some(TRUE)

\* C7: each value of crc_ok_por_tipo is null when no record of the type with
\* a checksum was parsed, false when one of them failed its checksum, true
\* otherwise; compact type-3 records are not counted.
C7_TriEstado ==
    Retornou =>
        /\ \A key \in CrcKeys :
              Doc.validacoes.crc_ok_por_tipo[key] = TriEstado(CrcsLidos(key))
        /\ \A key \in {"2", "3", "4", "5"} : CrcsLidos(key) = CrcsDoBucket(Doc, key)

C7_Witness ==
    /\ Retornou
    /\ \E k \in 1..Len(Doc.registros_por_tipo["3"]) :
          Doc.registros_por_tipo["3"][k].formato = "compacto"
    /\ \E k \in 1..Len(Doc.registros_por_tipo["3"]) :
          Doc.registros_por_tipo["3"][k].crc_ok = Some(TRUE)
    /\ Doc.validacoes.crc_ok_por_tipo["3"] = Some(TRUE)

\* The positions (among the non-blank lines) of the lines that fail the
\* structural check, and of those that fail in the dispatcher.
FalhaEstrutural(k) == ~Classificavel(lines[k])

FalhaNoDespacho(k) ==
    Classificavel(lines[k]) /\ Despachos[lines[k]].to \in {"desconhecido", "erro"}

Falha(k) == FalhaEstrutural(k) \/ FalhaNoDespacho(k)

Posicoes == [k \in 1..Len(lines) |-> k]

PosDosErros(errs) == [k \in 1..Len(errs) |-> errs[k].pos]

\* C8 as stated: at most 200 errors, those of the earliest failing lines, in
\* the order of the lines in the file.
C8_OrdemDoArquivo ==
    Retornou =>
        /\ Len(Doc.validacoes.erros) <= ErrCap
        /\ PosDosErros(Doc.validacoes.erros)
              = Primeiros(SelectSeq(Posicoes, Falha), ErrCap)

\* C8, amended: erros holds at most 200 entries, the first 200 of: every
\* structural error in file order, then every parse or unknown-type error in
\* file order.
C8_Erros ==
    Retornou =>
        /\ Len(Doc.validacoes.erros) <= ErrCap
        /\ PosDosErros(Doc.validacoes.erros)
              = Primeiros(SelectSeq(Posicoes, FalhaEstrutural)
                            \o SelectSeq(Posicoes, FalhaNoDespacho), ErrCap)
        /\ \A k \in 1..Len(Doc.validacoes.erros) :
              (Doc.validacoes.erros[k].kind = "Linha invalida (sem NSR)")
                  <=> FalhaEstrutural(Doc.validacoes.erros[k].pos)

C8_Witness ==
    /\ Retornou
    /\ Len(erros) > ErrCap
    /\ Len(Doc.validacoes.erros) = ErrCap
    /\ Doc.validacoes.erros[ErrCap].kind = "Erro ao parsear"
    /\ Doc.validacoes.erros[ErrCap].pos = 1

\* ------------------------------------------------------------------
\* Properties of the checksum verification
\* ------------------------------------------------------------------

\* The positions where the line differs from the original.
Diferencas == { k \in 1..Len(atual) : atual[k] # original[k] }

\* C5: the verification of a well-formed line yields true; after one byte
\* outside the checksum field changes, or the field changes to a 4-hex-digit
\* field of another value, it yields false; after the original value is
\* restored it yields true again. The record the parser returns, when the
\* line still parses, carries the same verdict.
C5_Crc ==
    etapa # "idle" =>
        /\ Len(atual) = Len(original)
        /\ etapa = "base" => veredito[1].crc_ok
        /\ etapa = "mutada" =>
              /\ ~veredito[1].crc_ok
              /\ Diferencas # {}
              /\ Cardinality(Diferencas) = 1 \/ Diferencas \subseteq 47..50
        /\ etapa = "restaurada" => (atual = original /\ veredito[1].crc_ok)
        /\ veredito[1].registro # None
              => veredito[1].registro[1].crc_ok = Some(veredito[1].crc_ok)

C5_Witness ==
    /\ etapa = "mutada"
    /\ Cardinality(Diferencas) = 1
    /\ Diferencas \cap (47..50) = {}
    /\ veredito[1].registro # None
    /\ veredito[1].registro[1].crc_ok = Some(FALSE)

\* ------------------------------------------------------------------
\* Properties of the summarizer
\* ------------------------------------------------------------------

\* The rows of gerar_jornadas_por_cpf have been built.
Gerado == chamada = "gerar_jornadas_por_cpf" /\ passo \in {"ordenar", "fim"}

\* The datetime of a text of Marcas.
Marca(m) == _parse_iso_dh(Marcas[m])[1]

\* The timestamps of one person and local day, in the order the rows give them.
MarcasDoDia(cpf, data) ==
    LET Vale(r) ==
            /\ Strip(r.cpf) = cpf
            /\ _parse_iso_dh(Strip(r.dh_marcacao)) # None
            /\ DataLocal(_parse_iso_dh(Strip(r.dh_marcacao))[1]) = data
        rs == SelectSeq(dados, Vale)
    IN  [k \in 1..Len(rs) |-> _parse_iso_dh(Strip(rs[k].dh_marcacao))[1]]

\* ts[j] comes before ts[k] in ascending order (ties by arrival).
Antes(ts, j, k) ==
    \/ Instant(ts[j]) < Instant(ts[k])
    \/ (Instant(ts[j]) = Instant(ts[k]) /\ j < k)

\* ts in ascending order: each element at the place its rank gives it.
EmOrdem(ts) ==
    [p \in 1..Len(ts) |->
        ts[CHOOSE k \in 1..Len(ts) :
              Cardinality({ j \in 1..Len(ts) : Antes(ts, j, k) }) + 1 = p]]

RECURSIVE SomaDosPares(_, _)
\* The seconds between entry and exit, summed over the first k pairs of ts.
SomaDosPares(ts, k) ==
    IF k = 0 THEN 0
    ELSE SomaDosPares(ts, k - 1) + 60 * (Instant(ts[2 * k]) - Instant(ts[2 * k - 1]))

\* The seconds an HH:MM text stands for.
SegundosDe(hhmm) ==
    3600 * DecValue(SubSeq(hhmm, 1, Len(hhmm) - 3))
        + 60 * DecValue(SubSeq(hhmm, Len(hhmm) - 1, Len(hhmm)))

\* C9: the sorted timestamps of a group are paired 1-2, 3-4, ...; an odd last
\* entry has an empty exit and adds nothing; horas_trabalhadas is the sum over
\* all the pairs, rendered or not; the first n_pares pairs are rendered.
C9_Pares ==
    Gerado =>
        \A g \in 1..Len(linhas) :
            LET r == linhas[g]
                S == EmOrdem(MarcasDoDia(r.cpf, r.data))
                SaidaDe(k) == IF 2 * k <= Len(S) THEN Some(S[2 * k]) ELSE None
            IN  /\ Len(S) > 0
                /\ Len(r.pares) = (Len(S) + 1) \div 2
                /\ \A k \in 1..Len(r.pares) :
                      r.pares[k] = << Some(S[2 * k - 1]), SaidaDe(k) >>
                /\ r.total = SomaDosPares(S, Len(S) \div 2)
                /\ SegundosDe(r.horas_trabalhadas) = r.total
                /\ Len(r.entrada_saida) = n_pares
                /\ \A k \in 1..n_pares :
                      r.entrada_saida[k] =
                          IF k <= Len(r.pares)
                          THEN << _format_dh(Some(S[2 * k - 1])), _format_dh(SaidaDe(k)) >>
                          ELSE << <<>>, <<>> >>
                /\ S = << Marca(1), Marca(2), Marca(3), Marca(4) >>
                      => /\ r.horas_trabalhadas = <<48, 56, 58, 48, 48>>
                         /\ r.pares = << << Some(Marca(1)), Some(Marca(2)) >>,
                                         << Some(Marca(3)), Some(Marca(4)) >> >>
                /\ S = << Marca(1), Marca(2), Marca(3) >>
                      => /\ r.horas_trabalhadas = <<48, 52, 58, 48, 48>>
                         /\ r.pares[2] = << Some(Marca(3)), None >>

C9_Witness ==
    /\ chamada = "gerar_jornadas_por_cpf"
    /\ passo = "fim"
    /\ n_pares = 1
    /\ Len(dados) = 4
    /\ dados[1].dh_marcacao = Marcas[4]
    /\ Len(linhas) = 1
    /\ Len(linhas[1].pares) = 2
    /\ linhas[1].horas_trabalhadas = <<48, 56, 58, 48, 48>>

\* What the k-th pair of ts adds: exit - entry when the exit is later, else 0.
Contribuicao(ts, k) ==
    IF 2 * k <= Len(ts) /\ Instant(ts[2 * k]) > Instant(ts[2 * k - 1])
    THEN 60 * (Instant(ts[2 * k]) - Instant(ts[2 * k - 1])) ELSE 0

RECURSIVE SomaContribuicoes(_, _)
SomaContribuicoes(ts, k) ==
    IF k = 0 THEN 0 ELSE SomaContribuicoes(ts, k - 1) + Contribuicao(ts, k)

TotalDosPares(ts) == SomaContribuicoes(ts, (Len(ts) + 1) \div 2)

\* C10 as stated: the punches of a person's day are paired as they are given,
\* so that punches given as [12:00, 08:00] add 0 to the day's total.
C10_ParesComoDados ==
    Gerado =>
        \A g \in 1..Len(linhas) :
            linhas[g].total = TotalDosPares(MarcasDoDia(linhas[g].cpf, linhas[g].data))

\* C10, amended: _sum_pairs adds exit - entry for a pair only when the exit is
\* later than the entry, so [12:00, 08:00] handed to it adds 0 and no total
\* is negative; gerar_jornadas_por_cpf sorts a group before pairing it, so
\* punches given as [12:00, 08:00] are paired (08:00, 12:00) and give 04:00.
C10_NuncaNegativo ==
    /\ (chamada = "_sum_pairs" /\ passo = "fim") =>
          /\ retorno[1].total = TotalDosPares(entrada)
          /\ retorno[1].total >= 0
          /\ entrada = << Marca(2), Marca(1) >> => retorno[1].total = 0
    /\ Gerado =>
          \A g \in 1..Len(linhas) :
              LET r == linhas[g]
                  dadas == MarcasDoDia(r.cpf, r.data)
              IN  /\ r.total = TotalDosPares(EmOrdem(dadas))
                  /\ r.total >= 0
                  /\ SegundosDe(r.horas_trabalhadas) = r.total
                  /\ dadas = << Marca(2), Marca(1) >>
                        => r.horas_trabalhadas = <<48, 52, 58, 48, 48>>

C10_Witness ==
    /\ chamada = "gerar_jornadas_por_cpf"
    /\ passo = "fim"
    /\ Len(linhas) = 1
    /\ MarcasDoDia(linhas[1].cpf, linhas[1].data) = << Marca(2), Marca(1) >>
    /\ linhas[1].horas_trabalhadas = <<48, 52, 58, 48, 48>>

\* max(0, x)
NaoNegativo(x) == IF x > 0 THEN x ELSE 0

\* An HH:MM text: digits, a colon, two digits.
EhHhMm(t) ==
    /\ Len(t) >= 5
    /\ t[Len(t) - 2] = 58
    /\ \A k \in (1..Len(t)) \ { Len(t) - 2 } : t[k] \in DecimalCodes

\* C11: in every journey row horas_extras_maior_10h is max(0, total - 10h) and
\* horas_extras_maior_6h is max(0, total - 6h), each from the same total and
\* not from the other; neither is negative, the 6h figure is at least the
\* 10h figure, a total of exactly 10h (6h) gives 00:00 for that limit, and a
\* total of 8h gives 00:00 and 02:00.
C11_HorasExtras ==
    Gerado =>
        \A g \in 1..Len(linhas) :
            LET r == linhas[g]
                e10 == r.horas_extras_maior_10h
                e6 == r.horas_extras_maior_6h
            IN  /\ EhHhMm(e10)
                /\ EhHhMm(e6)
                /\ SegundosDe(r.horas_trabalhadas) = r.total
                /\ SegundosDe(e10) = NaoNegativo(r.total - 10 * 3600)
                /\ SegundosDe(e6) = NaoNegativo(r.total - 6 * 3600)
                /\ SegundosDe(e6) >= SegundosDe(e10)
                /\ r.total = 10 * 3600 => e10 = <<48, 48, 58, 48, 48>>
                /\ r.total = 6 * 3600 => e6 = <<48, 48, 58, 48, 48>>
                /\ r.total = 8 * 3600
                      => /\ e10 = <<48, 48, 58, 48, 48>>
                         /\ e6 = <<48, 50, 58, 48, 48>>

\* A day of 10h01: one minute over the 10h limit, 4h01 over the 6h limit.
C11_Witness ==
    /\ chamada = "gerar_jornadas_por_cpf"
    /\ passo = "fim"
    /\ Len(linhas) = 1
    /\ linhas[1].horas_trabalhadas = <<49, 48, 58, 48, 49>>
    /\ linhas[1].horas_extras_maior_10h = <<48, 48, 58, 48, 49>>
    /\ linhas[1].horas_extras_maior_6h = <<48, 52, 58, 48, 49>>

\* A row of the input is accepted: its cpf and its timestamp are not empty
\* once stripped, and the timestamp parses.
Aceita(r) ==
    /\ Strip(r.cpf) # <<>>
    /\ Strip(r.dh_marcacao) # <<>>
    /\ _parse_iso_dh(Strip(r.dh_marcacao)) # None

\* The (cpf, local date) of the accepted rows.
ChavesAceitas ==
    { << Strip(dados[k].cpf), DataLocal(_parse_iso_dh(Strip(dados[k].dh_marcacao))[1]) >> :
        k \in { j \in 1..Len(dados) : Aceita(dados[j]) } }

\* a < b between two texts: at the first place they differ a has the lesser
\* character, or a is a proper prefix of b.
MenorTexto(a, b) ==
    \E k \in 1..Len(b) :
        /\ SubSeq(a, 1, Min(k - 1, Len(a))) = SubSeq(b, 1, k - 1)
        /\ (Len(a) < k \/ a[k] < b[k])

\* (a1, a2) < (b1, b2)
MenorPar(a1, a2, b1, b2) == MenorTexto(a1, b1) \/ (a1 = b1 /\ MenorTexto(a2, b2))

\* C12: gerar_jornadas_por_cpf returns, whatever rows it is given (rows with an
\* empty cpf, an empty timestamp or a timestamp that does not parse are
\* dropped), exactly one row per distinct (cpf, local date) of the accepted
\* punches, ascending by (data, cpf) by default and by (cpf, data) when
\* ordenar_por = 'cpf_data'.
C12_UmaLinhaPorDia ==
    (chamada = "gerar_jornadas_por_cpf" /\ passo = "fim") =>
        /\ retorno # None
        /\ retorno[1] = linhas
        /\ { << linhas[g].cpf, linhas[g].data >> : g \in 1..Len(linhas) } = ChavesAceitas
        /\ Len(linhas) = Cardinality(ChavesAceitas)
        /\ \A g \in 1..Len(linhas) : \A h \in (g + 1)..Len(linhas) :
              IF ordenar_por = "cpf_data"
              THEN MenorPar(linhas[g].cpf, linhas[g].data, linhas[h].cpf, linhas[h].data)
              ELSE MenorPar(linhas[g].data, linhas[g].cpf, linhas[h].data, linhas[h].cpf)

\* Two people on two days, asked by (cpf, data): the later day of the first
\* person comes before the earlier day of the second, the reverse of the
\* order of the rows given.
C12_Witness ==
    /\ chamada = "gerar_jornadas_por_cpf"
    /\ passo = "fim"
    /\ ordenar_por = "cpf_data"
    /\ dados = << Row(2, 1), Row(1, 7) >>
    /\ Len(linhas) = 2
    /\ linhas[1].cpf = Cpfs[1]
    /\ linhas[1].data = DataLocal(Marca(7))
    /\ linhas[2].cpf = Cpfs[2]
    /\ linhas[2].data = DataLocal(Marca(1))

\* ------------------------------------------------------------------
\* Properties of the second loop of interpretar_afd
\* ------------------------------------------------------------------

\* The second loop has run over every classifiable line.
Passou ==
    \/ pc = "pass2" /\ idx > Len(registros)
    \/ pc = "done" /\ (~result[1].raised
                          \/ result[1].kind = "Nenhum registro foi interpretado")

\* What the parser of the type written in the 10th character makes of a line.
ParserDoTipo(text) ==
    CASE text[10] = 49 -> parse_tipo1(text)
      [] text[10] = 50 -> parse_registro2(text)
      [] text[10] = 51 -> parse_tipo3(text)
      [] text[10] = 52 -> parse_registro4(text)
      [] text[10] = 53 -> parse_registro5(text)
      [] text[10] = 54 -> parse_registro6(text)
      [] text[10] = 55 -> parse_registro7(text)
      [] text[10] = 57 -> parse_registro9(text)
      [] OTHER -> Err(None)

\* The 10th character and the parse of every classifiable line of the
\* catalogue.
Analises ==
    [ln \in 1..Len(Catalogue) |->
        IF Classificavel(ln)
        THEN Some([tipo |-> Catalogue[ln][10], p |-> ParserDoTipo(Catalogue[ln])])
        ELSE None] \o <<>>

\* The character of each bucket's type.
CodigoDoTipo ==
    [k \in BucketKeys |->
        CASE k = "2" -> 50 [] k = "3" -> 51 [] k = "4" -> 52
          [] k = "5" -> 53 [] k = "6" -> 54 [] k = "7" -> 55]

\* The positions of the classifiable lines, in file order.
Classificaveis ==
    LET Vale(k) == Classificavel(lines[k])
    IN  SelectSeq(Posicoes, Vale)

\* Those of them whose 10th character is c and that parse.
Interpretadas(c) ==
    LET Vale(k) == Analises[lines[k]][1].tipo = c /\ Analises[lines[k]][1].p.ok
    IN  SelectSeq(Classificaveis, Vale)

\* Those of them that do not parse, or whose type is not known.
Recusadas ==
    LET Vale(k) == ~Analises[lines[k]][1].p.ok
    IN  SelectSeq(Classificaveis, Vale)

\* The record of the line at position k.
RegistroDe(k) == Analises[lines[k]][1].p.r

\* The last record of the lines at the positions q, if any.
UltimoRegistro(q) == IF Len(q) = 0 THEN None ELSE Some(RegistroDe(q[Len(q)]))

\* The errors of the second loop.
ErrosDoDespacho ==
    LET Vale(e) == e.kind # "Linha invalida (sem NSR)"
    IN  SelectSeq(erros, Vale)

\* C13: once the second loop has run over the lines, the bucket of each type
\* N in 2..7 is the sequence of the records of the classifiable lines whose
\* 10th character is N and that parse, in the order of the file, each line
\* once; no line is in two buckets, and every classifiable line has exactly
\* one outcome: one record appended to a bucket, the header set, the trailer
\* set, or one error recorded.
C13_Buckets ==
    Passou =>
        /\ \A key \in BucketKeys :
              bucket[key] = [j \in 1..Len(Interpretadas(CodigoDoTipo[key])) |->
                                RegistroDe(Interpretadas(CodigoDoTipo[key])[j])]
        /\ header = UltimoRegistro(Interpretadas(49))
        /\ trailer = UltimoRegistro(Interpretadas(57))
        /\ PosDosErros(ErrosDoDespacho) = Recusadas
        /\ Len(bucket["2"]) + Len(bucket["3"]) + Len(bucket["4"]) + Len(bucket["5"])
              + Len(bucket["6"]) + Len(bucket["7"]) + Len(Interpretadas(49))
              + Len(Interpretadas(57)) + Len(ErrosDoDespacho) = Len(Classificaveis)

\* Two punches in the file in the reverse of the order of their NSRs, after
\* a type-6 record: each is in its bucket, the punches in the order of the
\* file.
C13_Witness ==
    /\ Passou
    /\ lines = << 13, 7, 5 >>
    /\ Len(bucket["3"]) = 2
    /\ bucket["3"][1].nsr = 2
    /\ bucket["3"][2].nsr = 1
    /\ Len(bucket["6"]) = 1

\* The lines of the catalogue written as a trailer whose qtd_tipo2 (columns
\* 10-18) is a zero-padded count of nine digits below 900000000.
ContagemBaixa ==
    [ln \in 1..Len(Catalogue) |->
        /\ Classificavel(ln)
        /\ Len(Catalogue[ln]) >= 64
        /\ \A k \in 10..18 : Catalogue[ln][k] \in DecimalCodes
        /\ Catalogue[ln][10] \in 48..56
        /\ parse_registro9(Catalogue[ln]).ok] \o <<>>

\* The trailer that is set comes from a line whose 10th character, the first
\* of its qtd_tipo2, is '9'; a file whose only trailers are of a low count
\* returns no trailer, and contagens_ok keeps the value it starts with.
C14_Estado ==
    /\ trailer # None =>
          \E k \in 1..Len(lines) :
              /\ Classificavel(lines[k])
              /\ Texto(lines[k])[10] = 57
              /\ _slice(Texto(lines[k]), 10, 18)[1] = 57
              /\ Analises[lines[k]][1].p.ok
              /\ trailer = Some(RegistroDe(k))
              /\ trailer[1].qtd_tipo2 = PyInt(_slice(Texto(lines[k]), 10, 18)).v
    /\ (/\ Retornou
        /\ \E k \in 1..Len(lines) : ContagemBaixa[lines[k]]
        /\ \A k \in 1..Len(lines) : Classificavel(lines[k]) => Texto(lines[k])[10] # 57)
          => /\ Doc.trailer = None
             /\ Doc.validacoes.contagens_ok

\* One turn of the second loop: the line goes to the trailer parser exactly
\* when its 10th character is '9'; a trailer of a low count goes to another
\* type's parser or is recorded as of unknown type, and the trailer stays as
\* it was.
C14_Passo ==
    (pc = "pass2" /\ idx <= Len(registros) /\ idx' = idx + 1) =>
        LET ln == registros[idx].ln
            a == Analises[ln][1]
            novo(q) == Len(erros') = Len(erros) + 1 /\ erros'[Len(erros')].kind = q
        IN  /\ a.tipo = 57 =>
                  IF parse_registro9(Texto(ln)).ok
                  THEN /\ trailer' = Some(parse_registro9(Texto(ln)).r)
                       /\ UNCHANGED << erros, bucket, header >>
                  ELSE /\ trailer' = trailer
                       /\ novo("Erro ao parsear")
                       /\ erros'[Len(erros')].e = parse_registro9(Texto(ln)).e
            /\ a.tipo # 57 => trailer' = trailer
            /\ ContagemBaixa[ln] =>
                  /\ trailer' = trailer
                  /\ IF a.tipo \in {48, 56} THEN novo("Tipo desconhecido")
                     ELSE IF ~a.p.ok THEN novo("Erro ao parsear")
                     ELSE IF a.tipo = 49 THEN header' = Some(a.p.r)
                     ELSE \E key \in BucketKeys :
                              /\ CodigoDoTipo[key] = a.tipo
                              /\ bucket'[key] = Append(bucket[key], a.p.r)

\* C14: a line goes to the trailer parser exactly when its 10th character,
\* which is also the first character of qtd_tipo2 (columns 10-18), is '9'.
\* So every trailer set has a qtd_tipo2 text that starts with '9', and a
\* trailer line whose qtd_tipo2 is a zero-padded count below 900000000 is
\* never set as trailer: it goes to the parser of another type or is
\* recorded as of unknown type, and contagens_ok is not computed against it.
C14_Trailer == [](C14_Estado) /\ [][C14_Passo]_vars

\* Nine type-2 records and a trailer that counts 000000009 of them: the
\* trailer line is recorded as of unknown type 0 and the document has no
\* trailer.
C14_Witness ==
    /\ Retornou
    /\ lines = Rep(14, 9) \o << 35 >>
    /\ Len(Doc.registros_por_tipo["2"]) = 9
    /\ Doc.trailer = None
    /\ Doc.validacoes.contagens_ok
    /\ Len(erros) = 1
    /\ erros[1].kind = "Tipo desconhecido"
    /\ erros[1].tipo = 48

\* C15: in every returned document crc_ok_por_tipo['1'] describes the header
\* of the document, the last type-1 line that parsed: it is null iff there is
\* no header or the header's crc_ok is null, and is the header's crc_ok
\* otherwise, whatever type-1 lines the file holds.
C15_CrcDoHeader ==
    Retornou =>
        /\ Doc.header = UltimoRegistro(Interpretadas(49))
        /\ Doc.validacoes.crc_ok_por_tipo["1"]
              = IF Doc.header = None THEN None ELSE Doc.header[1].crc_ok
====
